---- MODULE Spec2Model ----
(***************************************************************************)
(* Client-side session / token lifecycle of the LLM-Assistant frontend:    *)
(* the token codec (getTokenExpiry and the inline JSON.parse(atob(...))    *)
(* decodes), the AuthProvider (bootstrapAuth, the 5 s refresh interval,    *)
(* logout) and the Login page's handleLogin, all acting on the             *)
(* localStorage slot "token".                                              *)
(*                                                                         *)
(* One action is one run-to-completion step of the JavaScript event loop:  *)
(* the synchronous code between two awaits.  A network response is chosen  *)
(* when the continuation that consumes it runs.  The clock advances with   *)
(* the firings of the interval, which the browser may delay; a continuation*)
(* reads the clock of the latest firing.  The production build is          *)
(* modelled: each effect of AuthProvider runs once.  Signup's auto-login   *)
(* writes the slot and the identity exactly as handleLogin does.           *)
(***************************************************************************)
EXTENDS Integers, Sequences, FiniteSets, TLC

VARIABLES
    token,        \* localStorage["token"]           (a credential string or absent)
    user,         \* useState user                   (useAuth.jsx:20)
    loading,      \* useState loading                (useAuth.jsx:21)
    expiryMs,     \* useState expiryMs               (useAuth.jsx:22)
    now,          \* Date.now(), in ms
    bootPc,       \* where bootstrapAuth is suspended: "refresh", "me", "done"
    bootTok,      \* bootstrapAuth's local existingToken (useAuth.jsx:48)
    bootFellBack, \* bootstrapAuth has executed line 48 (read the stored credential)
    loopInFlight, \* number of interval callbacks suspended at the fetch of line 85
    loginPending, \* handleLogin is suspended at its fetch (Login page, line 23)
    tickLog,      \* the countdowns computed by the most recent ticks, with "fired"
    last          \* the step that produced this state, with the response it consumed

\* AuthProvider is mounted: its interval is armed and its state is rendered.
\* After the teardown user, loading and expiryMs hold the values last passed to
\* their setters, which React no longer renders.
VARIABLES mounted

\* ChatInterface (pages/ChatInterface.jsx)
VARIABLES
    sessionId,      \* useState sessionId                          (line 18)
    storedSession,  \* localStorage["chat_session_id"]
    nextId,         \* the next value generateSessionId returns
    messages,       \* useState messages                           (line 15)
    input,          \* useState input                             (line 16)
    sending,        \* useState sending                            (line 17)
    sendSid,        \* sessionId in the closure of the suspended sendMessage, 0 if none
    histInFlight,   \* sessionIds of the suspended /api/history fetches
    modelsInFlight, \* sessionIds of the suspended /api/models fetches
    selectedModel,  \* useState selectedModel                      (line 27)
    selOwner,       \* the session id selectedModel was chosen for, 0 if none
    defaultModel,   \* useState defaultModel                       (line 26)
    models,         \* useState models                            (line 25)
    savedModel      \* localStorage["chat_model_selection:" + id], per id

authVars == << token, user, loading, expiryMs, now, bootPc, bootTok, bootFellBack,
               loopInFlight, loginPending, tickLog >>

chatVars == << sessionId, storedSession, nextId, messages, input, sending, sendSid,
               histInFlight, modelsInFlight, selectedModel, selOwner, defaultModel,
               models, savedModel >>

vars == << token, user, loading, expiryMs, now, bootPc, bootTok, bootFellBack,
           loopInFlight, loginPending, tickLog, last, mounted, sessionId,
           storedSession, nextId, messages, input, sending, sendSid, histInFlight,
           modelsInFlight, selectedModel, selOwner, defaultModel, models,
           savedModel >>

(***************************************************************************)
(* Bounds of the model.                                                    *)
(***************************************************************************)
MaxTicks == 14       \* the clock stops at MaxTicks * Interval
MaxSessions == 2     \* session ids generateSessionId hands out
MaxMessages == 3     \* length of the visible message list
FairHorizon == 4     \* intervals the clock runs in the fair specification
MaxInFlight == 2     \* interval callbacks that may be suspended at once
TickWindow == 3      \* how many recent ticks tickLog remembers

(***************************************************************************)
(* Program constants.                                                      *)
(***************************************************************************)
Interval == 5000     \* setInterval(..., 5000)
LowWater == 60000    \* timeLeft < 60_000
MsPerSec == 1000     \* decoded.exp * 1000

(***************************************************************************)
(* JavaScript values.  A countdown is null, NaN or a number.               *)
(***************************************************************************)
JNull == [k |-> "null", v |-> 0]
JNaN == [k |-> "nan", v |-> 0]
JNum(n) == [k |-> "num", v |-> n]

(***************************************************************************)
(* Credentials.  A credential string is described by what split("."),      *)
(* atob and JSON.parse make of it:                                         *)
(*   segs    number of dot-separated segments                              *)
(*   enc     the middle segment: "raw"  atob throws,                       *)
(*                               "text" atob succeeds, JSON.parse throws,  *)
(*                               "null" the JSON value null,               *)
(*                               "obj"  a JSON object                      *)
(*   sub     the object's sub claim ("" when it has none)                  *)
(*   hasExp, exp   the object's exp claim, in seconds                      *)
(* kind "null" is the absent string (getItem returned null), kind "undef"  *)
(* is JavaScript's undefined (a response without access_token).            *)
(***************************************************************************)
NoToken == [kind |-> "null", segs |-> 0, enc |-> "raw", sub |-> "", hasExp |-> FALSE, exp |-> 0]
Undef == [kind |-> "undef", segs |-> 0, enc |-> "raw", sub |-> "", hasExp |-> FALSE, exp |-> 0]
Str(n, e, s, h, x) == [kind |-> "str", segs |-> n, enc |-> e, sub |-> s, hasExp |-> h, exp |-> x]
Jwt(s, x) == Str(3, "obj", s, TRUE, x)

\* localStorage.setItem("token", v) stores String(v): undefined becomes "undefined",
\* a one-segment string.
setItem(v) == IF v.kind = "undef" THEN Str(1, "raw", "", FALSE, 0) ELSE v

\* JSON.parse(atob(t.split(".")[1])) returns (does not throw).
Parses(t) == t.kind = "str" /\ t.segs >= 2 /\ t.enc \in {"null", "obj"}

\* getTokenExpiry(token) evaluated at Date.now() = at.
getTokenExpiry(t, at) ==
    IF ~Parses(t) THEN JNull                        \* catch { return null }
    ELSE IF t.enc = "null" THEN JNull               \* decoded.exp on null throws
    ELSE IF ~t.hasExp \/ t.exp = 0 THEN JNull       \* if (!decoded.exp) return null
    ELSE LET timeLeftMs == t.exp * MsPerSec - at
         IN  IF timeLeftMs > 0 THEN JNum(timeLeftMs) ELSE JNum(0)

\* The inline decode of lines 38-40, 95-97 and Login 39-40 completes without
\* throwing: JSON.parse(atob(...)) returns and decoded.sub can be read.
DecodeOk(t) == Parses(t) /\ t.enc = "obj"

\* { email: decoded.sub }
NoUser == [present |-> FALSE, email |-> "", id |-> 0]
DecodedUser(t) == [present |-> TRUE, email |-> IF t.sub = "" THEN "undefined" ELSE t.sub, id |-> 0]

\* decoded.exp * 1000 - Date.now()
RawExpiry(t, at) == IF t.hasExp THEN JNum(t.exp * MsPerSec - at) ELSE JNaN

(***************************************************************************)
(* Inputs: what the backend may answer.                                    *)
(***************************************************************************)
OneSeg == Str(1, "raw", "", FALSE, 0)                 \* "abc"
NotJson == Str(3, "text", "", FALSE, 0)               \* "a.aGVsbG8=.c"
NoExpTok == Str(3, "obj", "alice", FALSE, 0)          \* payload {"sub":"alice"}
Exps == {1, 75, 600}                                  \* exp claims, in seconds
GoodTokens == { Jwt("alice", x) : x \in Exps }

\* data.access_token of a 2xx answer of /auth/refresh or /auth/login
ServerTokens == GoodTokens \cup {Undef, OneSeg, NoExpTok}

\* What localStorage may hold when the page loads.
StoredTokens == {NoToken, OneSeg} \cup GoodTokens

\* The payload of a 2xx answer of /auth/me.
MeData == [present |-> TRUE, email |-> "alice", id |-> 7]

\* A response: "neterr" fetch rejects, "fail" res.ok is false, "badbody" res.ok
\* and res.json() rejects, "ok" res.ok and res.json() resolves.
Resp(k, t) == [kind |-> k, tok |-> t]
Failures == { Resp(k, NoToken) : k \in {"neterr", "fail", "badbody"} }
TokenResponses == Failures \cup { Resp("ok", t) : t \in ServerTokens }
MeResponses == Failures \cup { Resp("ok", NoToken) }

Step(op, r) == [op |-> op, kind |-> r.kind, tok |-> r.tok]
NoResp == Resp("none", NoToken)

(***************************************************************************)
(* The chat view before it is rendered: nothing typed, nothing in flight.  *)
(***************************************************************************)
NoModel == "none"
SessionIds == 1..MaxSessions
ChatAtRest ==
    /\ sessionId = 1
    /\ storedSession = 1
    /\ nextId = 2
    /\ messages = << >>
    /\ input = ""
    /\ sending = FALSE
    /\ sendSid = 0
    /\ histInFlight = {}
    /\ modelsInFlight = {}
    /\ selectedModel = NoModel
    /\ selOwner = 0
    /\ defaultModel = NoModel
    /\ models = {}
    /\ savedModel = [ i \in SessionIds |-> NoModel ]

(***************************************************************************)
(* The state after construction: AuthProvider mounted, both effects run:   *)
(* bootstrapAuth is suspended at its fetch of /auth/refresh and the        *)
(* interval is armed.                                                      *)
(***************************************************************************)
\* The page is loaded when the clock shows "at".
InitAt(at) ==
    /\ token \in StoredTokens
    /\ user = NoUser
    /\ loading = TRUE
    /\ expiryMs = JNull
    /\ now = at
    /\ bootPc = "refresh"
    /\ bootTok = NoToken
    /\ bootFellBack = FALSE
    /\ loopInFlight = 0
    /\ loginPending = FALSE
    /\ tickLog = << >>
    /\ last = Step("init", NoResp)
    /\ mounted = TRUE
    /\ ChatAtRest

Init == InitAt(Interval)

\* The history of ticks is kept per content of the credential slot.
LogAfterWrite(t) == IF t = token THEN tickLog ELSE << >>

(***************************************************************************)
(* logout (useAuth.jsx:110-113)                                            *)
(***************************************************************************)
\* Mutant: logout clears the identity and leaves the credential in the slot.
logoutEffect_KeepsToken ==
    /\ token' = token
    /\ user' = NoUser

logoutEffect ==
    /\ token' = NoToken
    /\ user' = NoUser

logout ==
    /\ logoutEffect
    /\ tickLog' = LogAfterWrite(NoToken)
    /\ last' = Step("logout", NoResp)
    /\ UNCHANGED << loading, expiryMs, now, bootPc, bootTok, bootFellBack,
                    loopInFlight, loginPending >>

(***************************************************************************)
(* bootstrapAuth (useAuth.jsx:25-70)                                       *)
(***************************************************************************)
\* Mutant: without a stored credential the fallback returns early and never
\* reaches setLoading(false).
BootFallback_EarlyReturn(t) ==
    /\ bootFellBack' = TRUE
    /\ loading' = loading
    /\ IF t.kind = "str"
       THEN /\ bootTok' = t
            /\ bootPc' = "me"
       ELSE /\ bootTok' = bootTok
            /\ bootPc' = "done"

\* Lines 48-69 up to the await of line 51, reading the slot content t.
BootFallback(t) ==
    /\ bootFellBack' = TRUE
    /\ IF t.kind = "str"
       THEN /\ bootTok' = t
            /\ bootPc' = "me"
            /\ loading' = loading
       ELSE /\ bootTok' = bootTok
            /\ bootPc' = "done"
            /\ loading' = FALSE

\* Mutant: the return of line 42 is missing, so the success path runs on into
\* the stored-credential fallback.
BootRefreshDone_NoReturn(r) ==
    /\ bootPc = "refresh"
    /\ IF r.kind = "ok"
       THEN /\ token' = setItem(r.tok)
            /\ IF DecodeOk(r.tok)
               THEN /\ user' = DecodedUser(r.tok)
                    /\ expiryMs' = RawExpiry(r.tok, now)
               ELSE UNCHANGED << user, expiryMs >>
            /\ BootFallback(setItem(r.tok))
       ELSE /\ BootFallback(token)
            /\ UNCHANGED << token, user, expiryMs >>
    /\ tickLog' = LogAfterWrite(token')
    /\ last' = Step("bootRefresh", r)
    /\ UNCHANGED << now, loopInFlight, loginPending >>

\* The continuation of the await of line 27.
BootRefreshDone(r) ==
    /\ bootPc = "refresh"
    /\ IF r.kind = "ok"
       THEN /\ token' = setItem(r.tok)
            /\ IF DecodeOk(r.tok)
               THEN /\ user' = DecodedUser(r.tok)
                    /\ expiryMs' = RawExpiry(r.tok, now)
                    /\ loading' = FALSE
                    /\ bootPc' = "done"
                    /\ UNCHANGED << bootTok, bootFellBack >>
               ELSE /\ BootFallback(setItem(r.tok))
                    /\ UNCHANGED << user, expiryMs >>
       ELSE /\ BootFallback(token)
            /\ UNCHANGED << token, user, expiryMs >>
    /\ tickLog' = LogAfterWrite(token')
    /\ last' = Step("bootRefresh", r)
    /\ UNCHANGED << now, loopInFlight, loginPending >>

\* Mutant: the identity is decoded locally from existingToken instead of being
\* taken from the payload of /auth/me.
BootMeDone_LocalIdentity(r) ==
    /\ bootPc = "me"
    /\ IF r.kind = "ok"
       THEN /\ user' = DecodedUser(bootTok)
            /\ expiryMs' = getTokenExpiry(bootTok, now)
            /\ token' = token
       ELSE /\ token' = NoToken
            /\ user' = NoUser
            /\ expiryMs' = expiryMs
    /\ loading' = FALSE
    /\ bootPc' = "done"
    /\ tickLog' = LogAfterWrite(token')
    /\ last' = Step("bootMe", r)
    /\ UNCHANGED << now, bootTok, bootFellBack, loopInFlight, loginPending >>

\* Mutant: the catch of lines 64-67 clears the identity and forgets to remove
\* the stored credential.
BootMeDone_CatchKeepsToken(r) ==
    /\ bootPc = "me"
    /\ IF r.kind = "ok"
       THEN /\ user' = MeData
            /\ expiryMs' = getTokenExpiry(bootTok, now)
            /\ token' = token
       ELSE /\ token' = IF r.kind = "fail" THEN NoToken ELSE token
            /\ user' = NoUser
            /\ expiryMs' = expiryMs
    /\ loading' = FALSE
    /\ bootPc' = "done"
    /\ tickLog' = LogAfterWrite(token')
    /\ last' = Step("bootMe", r)
    /\ UNCHANGED << now, bootTok, bootFellBack, loopInFlight, loginPending >>

\* The continuation of the await of line 51.
BootMeDone(r) ==
    /\ bootPc = "me"
    /\ IF r.kind = "ok"
       THEN /\ user' = MeData
            /\ expiryMs' = getTokenExpiry(bootTok, now)
            /\ token' = token
       ELSE /\ token' = NoToken
            /\ user' = NoUser
            /\ expiryMs' = expiryMs
    /\ loading' = FALSE
    /\ bootPc' = "done"
    /\ tickLog' = LogAfterWrite(token')
    /\ last' = Step("bootMe", r)
    /\ UNCHANGED << now, bootTok, bootFellBack, loopInFlight, loginPending >>

(***************************************************************************)
(* The refresh interval (useAuth.jsx:76-105)                               *)
(***************************************************************************)
TickGaps == {Interval, 2 * Interval, 10 * Interval}

\* Mutant: the null test of line 83 is missing; JavaScript's null < 60000 is
\* true, so a credential without a countdown is refreshed on every tick.
NeedsRefresh_NoNullTest(timeLeft) == timeLeft.v < LowWater

\* Mutant: the refresh waits for the countdown to pass zero, which the clamp of
\* getTokenExpiry never lets it do.
NeedsRefresh_PastZero(timeLeft) == timeLeft # JNull /\ timeLeft.v < 0

\* timeLeft !== null && timeLeft < 60_000
NeedsRefresh(timeLeft) == timeLeft # JNull /\ timeLeft.v < LowWater

Logged(entry) ==
    LET l == Append(tickLog, entry)
    IN  IF Len(l) > TickWindow THEN Tail(l) ELSE l

\* One firing of the interval callback, d ms after the previous one, up to its
\* first await (or its end).
Tick(d) ==
    /\ now + d <= MaxTicks * Interval
    /\ now' = now + d
    /\ IF token = NoToken
       THEN UNCHANGED << expiryMs, loopInFlight, tickLog >>
       ELSE LET timeLeft == getTokenExpiry(token, now')
            IN  /\ expiryMs' = timeLeft
                /\ NeedsRefresh(timeLeft) => loopInFlight < MaxInFlight
                /\ loopInFlight' = IF NeedsRefresh(timeLeft)
                                   THEN loopInFlight + 1 ELSE loopInFlight
                /\ tickLog' = Logged([left |-> timeLeft, fired |-> NeedsRefresh(timeLeft)])
    /\ last' = Step("tick", NoResp)
    /\ UNCHANGED << token, user, loading, bootPc, bootTok, bootFellBack, loginPending >>

\* Mutant: the catch of lines 101-103 swallows the error instead of calling
\* logout, as the catch of bootstrapAuth's refresh does.
LoopRefreshDone_CatchIgnores(r) ==
    /\ loopInFlight > 0
    /\ loopInFlight' = loopInFlight - 1
    /\ IF r.kind = "ok"
       THEN IF DecodeOk(r.tok)
            THEN /\ token' = setItem(r.tok)
                 /\ user' = DecodedUser(r.tok)
                 /\ expiryMs' = RawExpiry(r.tok, now)
            ELSE /\ token' = setItem(r.tok)
                 /\ UNCHANGED << user, expiryMs >>
       ELSE IF r.kind = "fail"
            THEN /\ logoutEffect
                 /\ expiryMs' = expiryMs
            ELSE UNCHANGED << token, user, expiryMs >>
    /\ tickLog' = LogAfterWrite(token')
    /\ last' = Step("loopRefresh", r)
    /\ UNCHANGED << loading, now, bootPc, bootTok, bootFellBack, loginPending >>

\* The continuation of the await of line 85.  A 2xx answer is stored (line 93)
\* before it is decoded; when the decode throws, the catch calls logout, which
\* removes it again within the same step.
LoopRefreshDone(r) ==
    /\ loopInFlight > 0
    /\ loopInFlight' = loopInFlight - 1
    /\ IF r.kind = "ok" /\ DecodeOk(r.tok)
       THEN /\ token' = setItem(r.tok)
            /\ user' = DecodedUser(r.tok)
            /\ expiryMs' = RawExpiry(r.tok, now)
       ELSE /\ logoutEffect
            /\ expiryMs' = expiryMs
    /\ tickLog' = LogAfterWrite(token')
    /\ last' = Step("loopRefresh", r)
    /\ UNCHANGED << loading, now, bootPc, bootTok, bootFellBack, loginPending >>

(***************************************************************************)
(* handleLogin (Login page, lines 20-46)                                   *)
(***************************************************************************)
\* The page renders the form only when AppShell is past "Loading..." and no
\* user is set.
handleLoginStart ==
    /\ ~loading
    /\ ~user.present
    /\ ~loginPending
    /\ loginPending' = TRUE
    /\ last' = Step("loginStart", NoResp)
    /\ UNCHANGED << token, user, loading, expiryMs, now, bootPc, bootTok,
                    bootFellBack, loopInFlight, tickLog >>

\* The continuation of the await of line 23.
handleLoginDone(r) ==
    /\ loginPending
    /\ loginPending' = FALSE
    /\ IF r.kind = "ok"
       THEN /\ token' = setItem(r.tok)
            /\ user' = IF DecodeOk(r.tok) THEN DecodedUser(r.tok) ELSE user
       ELSE UNCHANGED << token, user >>
    /\ tickLog' = LogAfterWrite(token')
    /\ last' = Step("login", r)
    /\ UNCHANGED << loading, expiryMs, now, bootPc, bootTok, bootFellBack, loopInFlight >>

(***************************************************************************)
(* Teardown of the provider (useAuth.jsx:107): the cleanup of the interval *)
(* effect clears the timer.  Nothing aborts the fetches that are in        *)
(* flight, and no continuation tests whether the provider is still         *)
(* mounted.                                                                *)
(***************************************************************************)
Unmount ==
    /\ mounted
    /\ mounted' = FALSE
    /\ last' = Step("unmount", NoResp)
    /\ UNCHANGED authVars

\* The pages render the Logout button only past "Loading..." and with a user set
\* (ChatInterface.jsx:185-194, 249; the memory page likewise).
LogoutButton == mounted /\ ~loading /\ user.present

\* The interval fires, and the pages call logout and handleLogin, only while the
\* provider is mounted; the continuations of fetches run whenever they resolve.
\* None of these steps touches the chat view.
LogoutStep == LogoutButton /\ logout /\ UNCHANGED mounted /\ UNCHANGED chatVars
BootRefreshStep ==
    (\E r \in TokenResponses : BootRefreshDone(r)) /\ UNCHANGED mounted /\ UNCHANGED chatVars
BootMeStep ==
    (\E r \in MeResponses : BootMeDone(r)) /\ UNCHANGED mounted /\ UNCHANGED chatVars
TickStep ==
    mounted /\ (\E d \in TickGaps : Tick(d)) /\ UNCHANGED mounted /\ UNCHANGED chatVars
LoopRefreshStep ==
    (\E r \in TokenResponses : LoopRefreshDone(r)) /\ UNCHANGED mounted /\ UNCHANGED chatVars
LoginStartStep == mounted /\ handleLoginStart /\ UNCHANGED mounted /\ UNCHANGED chatVars
LoginDoneStep ==
    (\E r \in TokenResponses : handleLoginDone(r)) /\ UNCHANGED mounted /\ UNCHANGED chatVars
UnmountStep == Unmount /\ UNCHANGED chatVars

Next ==
    \/ LogoutStep
    \/ BootRefreshStep
    \/ BootMeStep
    \/ TickStep
    \/ LoopRefreshStep
    \/ LoginStartStep
    \/ LoginDoneStep
    \/ UnmountStep

Spec == Init /\ [][Next]_vars

\* Every fetch of the provider eventually resolves or rejects, and the armed
\* interval keeps firing.  The page is loaded FairHorizon intervals before the
\* clock of the model ends.
FairInit == InitAt((MaxTicks - FairHorizon) * Interval)

FairSpec ==
    /\ FairInit
    /\ [][Next]_vars
    /\ WF_vars(BootRefreshStep)
    /\ WF_vars(BootMeStep)
    /\ WF_vars(LoopRefreshStep)
    /\ WF_vars(TickStep)

(***************************************************************************)
(* ChatInterface (pages/ChatInterface.jsx).  A message carries, besides    *)
(* role and content, the session id it was produced for; selOwner does the *)
(* same for the displayed model selection.  The code keeps neither.        *)
(***************************************************************************)
Models == {"m1", "m2"}
\* data.session of /api/chat and /api/history, data.default of /api/models
ServerModels == {NoModel, "m1"}
Defaults == {NoModel, "m2"}
\* the option the user picks in the select
Picks == {"m1"}
Inputs == {"", " ", " hi "}

\* input.trim()
Trim(s) == IF s = " " THEN "" ELSE IF s = " hi " THEN "hi" ELSE s

Msg(role, content, sid) == [role |-> role, content |-> content, sid |-> sid]

\* What /api/chat answers.  text is data.reply of a 2xx body and err.detail of
\* a non-2xx body ("" when the field is missing); session is data.session.
ChatResp(kind, text, session) == [kind |-> kind, text |-> text, session |-> session]
ChatResponses ==
    {ChatResp("ok", "pong", m) : m \in ServerModels}
        \cup {ChatResp("ok", "", NoModel)}
        \cup {ChatResp("status", t, NoModel) : t \in {"", "quota"}}
        \cup {ChatResp("badbody", "", NoModel), ChatResp("neterr", "", NoModel)}

\* The content of the assistant message sendMessage appends.
AssistantText(r) ==
    CASE r.kind = "ok" -> IF r.text = "" THEN "No response" ELSE r.text
      [] r.kind = "status" ->
            "Error: " \o (IF r.text = "" THEN "Chat request failed" ELSE r.text)
      [] r.kind = "badbody" -> "Error: " \o "Unexpected token"
      [] OTHER -> "Error: " \o "Failed to fetch"

\* What /api/history answers for session sid: no messages or one exchange.
HistResponses ==
    {[kind |-> k, n |-> n, session |-> m] :
        k \in {"ok", "fail"}, n \in {0, 2}, m \in ServerModels}
HistoryMessages(sid, n) ==
    IF n = 0 THEN << >>
    ELSE << Msg("user", "hi", sid), Msg("assistant", "pong", sid) >>

\* What /api/models answers.
ModelsResponses ==
    {[kind |-> k, models |-> ms, default |-> d] :
        k \in {"ok", "fail"}, ms \in {{}, Models}, d \in Defaults}

\* The handler that ran last; the handlers no property singles out are "view".
ChatStep(op, kind) == Step(op, Resp(kind, NoToken))

\* The view is rendered past its two guards (lines 185-194).
ChatVisible == mounted /\ ~loading /\ user.present

\* <textarea onChange={(e) => setInput(e.target.value)} disabled={sending}>
setInput(v) ==
    /\ ChatVisible
    /\ ~sending
    /\ input' = v
    /\ last' = ChatStep("view", "none")
    /\ UNCHANGED << sessionId, storedSession, nextId, messages, sending, sendSid,
                    histInFlight, modelsInFlight, selectedModel, selOwner,
                    defaultModel, models, savedModel >>

\* sendMessage up to its await (lines 96-122).  The button and the textarea
\* are disabled while sending, so one call is suspended at a time.
sendMessageStart ==
    /\ ChatVisible
    /\ ~sending
    /\ Trim(input) # ""
    /\ token # NoToken
    /\ Len(messages) + 2 <= MaxMessages
    /\ messages' = Append(messages, Msg("user", Trim(input), sessionId))
    /\ input' = ""
    /\ sending' = TRUE
    /\ sendSid' = sessionId
    /\ last' = ChatStep("send", "none")
    /\ UNCHANGED << sessionId, storedSession, nextId, histInFlight, modelsInFlight,
                    selectedModel, selOwner, defaultModel, models, savedModel >>

\* sendMessage returning at line 98 or line 100 (Enter in the textarea calls it
\* whatever the input).
sendMessageReturn ==
    /\ ChatVisible
    /\ ~sending
    /\ Trim(input) = "" \/ token = NoToken
    /\ last' = ChatStep("sendReturn", "none")
    /\ UNCHANGED chatVars

\* Lines 144-152 without the append of the catch block.
sendMessageDone_CatchSilent(r) ==
    /\ sendSid # 0
    /\ IF r.kind = "ok"
       THEN /\ IF r.session # NoModel
               THEN /\ selectedModel' = r.session
                    /\ selOwner' = sendSid
                    /\ savedModel' = [savedModel EXCEPT ![sendSid] = r.session]
               ELSE UNCHANGED << selectedModel, selOwner, savedModel >>
            /\ messages' = Append(messages, Msg("assistant", AssistantText(r), sendSid))
       ELSE UNCHANGED << selectedModel, selOwner, savedModel, messages >>
    /\ sending' = FALSE
    /\ sendSid' = 0
    /\ last' = ChatStep("sendDone", "none")
    /\ UNCHANGED << sessionId, storedSession, nextId, input, histInFlight,
                    modelsInFlight, defaultModel, models >>

\* sendMessage after its await (lines 124-152); sendSid is the sessionId of
\* the closure.
sendMessageDone(r) ==
    /\ sendSid # 0
    /\ IF r.kind = "ok" /\ r.session # NoModel
       THEN /\ selectedModel' = r.session
            /\ selOwner' = sendSid
            /\ savedModel' = [savedModel EXCEPT ![sendSid] = r.session]
       ELSE UNCHANGED << selectedModel, selOwner, savedModel >>
    /\ messages' = Append(messages, Msg("assistant", AssistantText(r), sendSid))
    /\ sending' = FALSE
    /\ sendSid' = 0
    /\ last' = ChatStep("sendDone", "none")
    /\ UNCHANGED << sessionId, storedSession, nextId, input, histInFlight,
                    modelsInFlight, defaultModel, models >>

\* startNewSession without the lookup of lines 168-170.
startNewSession_IgnoresSaved ==
    /\ ChatVisible
    /\ nextId <= MaxSessions
    /\ nextId' = nextId + 1
    /\ storedSession' = nextId
    /\ sessionId' = nextId
    /\ messages' = << >>
    /\ selectedModel' = defaultModel
    /\ selOwner' = nextId
    /\ histInFlight' = histInFlight \cup {nextId}
    /\ modelsInFlight' = modelsInFlight \cup {nextId}
    /\ last' = ChatStep("newSession", "none")
    /\ UNCHANGED << input, sending, sendSid, defaultModel, models, savedModel >>

\* startNewSession (lines 163-176), then the two effects that depend on
\* sessionId (lines 32-59, 61-88).  generateSessionId returns a value it never
\* returned before: nextId.
startNewSession ==
    /\ ChatVisible
    /\ nextId <= MaxSessions
    /\ nextId' = nextId + 1
    /\ storedSession' = nextId
    /\ sessionId' = nextId
    /\ messages' = << >>
    /\ selectedModel' = IF savedModel[nextId] # NoModel THEN savedModel[nextId]
                        ELSE defaultModel
    /\ selOwner' = nextId
    /\ histInFlight' = histInFlight \cup {nextId}
    /\ modelsInFlight' = modelsInFlight \cup {nextId}
    /\ last' = ChatStep("newSession", "none")
    /\ UNCHANGED << input, sending, sendSid, defaultModel, models, savedModel >>

\* The continuation of the fetch of /api/history (lines 43-58) for the
\* sessionId of its closure.
HistoryDone(sid, r) ==
    /\ sid \in histInFlight
    /\ histInFlight' = histInFlight \ {sid}
    /\ IF r.kind = "ok"
       THEN /\ messages' = HistoryMessages(sid, r.n)
            /\ IF r.session # NoModel
               THEN /\ selectedModel' = r.session
                    /\ selOwner' = sid
                    /\ savedModel' = [savedModel EXCEPT ![sid] = r.session]
               ELSE UNCHANGED << selectedModel, selOwner, savedModel >>
       ELSE /\ messages' = << >>
            /\ UNCHANGED << selectedModel, selOwner, savedModel >>
    /\ last' = ChatStep("view", "none")
    /\ UNCHANGED << sessionId, storedSession, nextId, input, sending, sendSid,
                    modelsInFlight, defaultModel, models >>

\* The continuation of the fetch of /api/models (lines 70-87).
ModelsDone(sid, r) ==
    /\ sid \in modelsInFlight
    /\ modelsInFlight' = modelsInFlight \ {sid}
    /\ IF r.kind = "ok"
       THEN /\ models' = r.models
            /\ defaultModel' = r.default
            /\ IF savedModel[sid] # NoModel
               THEN selectedModel' = savedModel[sid] /\ selOwner' = sid
               ELSE IF r.default # NoModel
               THEN selectedModel' = r.default /\ selOwner' = sid
               ELSE UNCHANGED << selectedModel, selOwner >>
       ELSE /\ models' = {}
            /\ UNCHANGED << defaultModel, selectedModel, selOwner >>
    /\ last' = ChatStep("view", "none")
    /\ UNCHANGED << sessionId, storedSession, nextId, messages, input, sending,
                    sendSid, histInFlight, savedModel >>

\* handleModelChange (lines 178-183); the select is disabled without models.
handleModelChange(sel) ==
    /\ ChatVisible
    /\ sel \in models
    /\ selectedModel' = sel
    /\ selOwner' = sessionId
    /\ savedModel' = [savedModel EXCEPT ![sessionId] = sel]
    /\ last' = ChatStep("view", "none")
    /\ UNCHANGED << sessionId, storedSession, nextId, messages, input, sending,
                    sendSid, histInFlight, modelsInFlight, defaultModel, models >>

\* The chat view rendered for a signed-in user: both effects have sent their
\* requests for the stored session id.  localStorage outlives the page: the
\* credential may be gone, and selections may be stored under other ids.
ChatInit ==
    /\ token \in {NoToken, Jwt("alice", 600)}
    /\ user = DecodedUser(Jwt("alice", 600))
    /\ loading = FALSE
    /\ expiryMs = JNull
    /\ now = Interval
    /\ bootPc = "done"
    /\ bootTok = NoToken
    /\ bootFellBack = FALSE
    /\ loopInFlight = 0
    /\ loginPending = FALSE
    /\ tickLog = << >>
    /\ last = Step("init", NoResp)
    /\ mounted = TRUE
    /\ sessionId = 1
    /\ storedSession = 1
    /\ nextId = 2
    /\ messages = << >>
    /\ input = ""
    /\ sending = FALSE
    /\ sendSid = 0
    /\ histInFlight = {1}
    /\ modelsInFlight = {1}
    /\ selectedModel = NoModel
    /\ selOwner = 0
    /\ defaultModel = NoModel
    /\ models = {}
    /\ savedModel \in {[i \in SessionIds |-> NoModel],
                       [i \in SessionIds |-> IF i = 1 THEN NoModel ELSE "m1"]}

SetInputStep == (\E v \in Inputs : setInput(v)) /\ UNCHANGED << authVars, mounted >>
SendStartStep == sendMessageStart /\ UNCHANGED << authVars, mounted >>
SendReturnStep == sendMessageReturn /\ UNCHANGED << authVars, mounted >>
SendDoneStep ==
    (\E r \in ChatResponses : sendMessageDone(r)) /\ UNCHANGED << authVars, mounted >>
NewSessionStep == startNewSession /\ UNCHANGED << authVars, mounted >>
HistoryStep ==
    (\E sid \in SessionIds, r \in HistResponses : HistoryDone(sid, r))
        /\ UNCHANGED << authVars, mounted >>
ModelsStep ==
    (\E sid \in SessionIds, r \in ModelsResponses : ModelsDone(sid, r))
        /\ UNCHANGED << authVars, mounted >>
ModelChangeStep ==
    (\E sel \in Picks : handleModelChange(sel)) /\ UNCHANGED << authVars, mounted >>

ChatNext ==
    \/ SetInputStep
    \/ SendStartStep
    \/ SendReturnStep
    \/ SendDoneStep
    \/ NewSessionStep
    \/ HistoryStep
    \/ ModelsStep
    \/ ModelChangeStep

SpecChat == ChatInit /\ [][ChatNext]_vars

(***************************************************************************)
(* Properties                                                              *)
(***************************************************************************)
Authenticated == user.present

\* logout has just run: called from the button of a page, or by the interval
\* callback whose refresh failed (lines 99 and 102), which happens in every state
\* of the session, bootstrap included.
LogoutRan ==
    \/ last.op = "logout"
    \/ last.op = "loopRefresh" /\ ~(last.kind = "ok" /\ DecodeOk(last.tok))

\* C1: in the state right after a call of logout, whatever was in flight, no
\* credential is stored under "token" and the identity is absent.
C1_LogoutClears ==
    LogoutRan => token = NoToken /\ ~Authenticated

\* logout has run from the button while a loop refresh and a login were still in
\* flight.
C1_Witness ==
    /\ last.op = "logout"
    /\ loopInFlight > 0
    /\ loginPending
    /\ token = NoToken

\* logout has run from the interval callback while bootstrap was still waiting
\* for /auth/me.
C1_WitnessBootstrapping ==
    /\ last.op = "loopRefresh"
    /\ LogoutRan
    /\ bootPc = "me"
    /\ loading

\* C2 as stated: after a 2xx answer of the bootstrap refresh, whatever access
\* token it carries, bootstrap has ended Authenticated with that credential
\* stored and has not touched the stored-credential fallback.
C2_AnyTokenAuthenticates ==
    (last.op = "bootRefresh" /\ last.kind = "ok") =>
        /\ bootPc = "done"
        /\ Authenticated
        /\ ~loading
        /\ token = setItem(last.tok)
        /\ ~bootFellBack

\* C2 amended: after a 2xx answer of the bootstrap refresh whose access token
\* decodes (at least two segments, the second base64 of a JSON object), bootstrap
\* has ended Authenticated with that credential stored and the identity decoded
\* from it, without reading the stored credential; and a bootstrap that ended
\* without falling back never called /auth/me.
C2_DecodableTokenAuthenticates ==
    /\ (last.op = "bootRefresh" /\ last.kind = "ok" /\ DecodeOk(last.tok)) =>
          /\ bootPc = "done"
          /\ Authenticated
          /\ user = DecodedUser(last.tok)
          /\ ~loading
          /\ token = last.tok
          /\ ~bootFellBack
    /\ (bootPc = "done" /\ ~bootFellBack) => bootTok = NoToken

\* The bootstrap refresh succeeded while an older credential was in the slot.
C2_Witness ==
    /\ last.op = "bootRefresh"
    /\ last.kind = "ok"
    /\ last.tok = Jwt("alice", 600)
    /\ token = Jwt("alice", 600)
    /\ Authenticated
    /\ ~bootFellBack

\* C3: the step that consumes a 2xx answer of /auth/me ends bootstrap with the
\* identity set to that answer's payload (not to the identity decoded from the
\* credential), leaves the credential slot as it is, and publishes the countdown
\* of the credential bootstrap had read from the slot.
C3_MeConfirms ==
    [][ (bootPc = "me" /\ last'.op = "bootMe" /\ last'.kind = "ok") =>
            /\ user' = MeData
            /\ user' # DecodedUser(bootTok)
            /\ token' = token
            /\ expiryMs' = getTokenExpiry(bootTok, now')
            /\ ~loading'
            /\ bootPc' = "done" ]_vars

\* /auth/me confirmed the stored credential, which is still in the slot.
C3_Witness ==
    /\ last.op = "bootMe"
    /\ last.kind = "ok"
    /\ token = bootTok
    /\ token = Jwt("alice", 75)
    /\ user = MeData
    /\ expiryMs = JNum(75 * MsPerSec - now)

\* C4: after /auth/me answered non-2xx, failed, or its body could not be read,
\* bootstrap has ended Anonymous and the slot is empty.
C4_MeRejects ==
    (last.op = "bootMe" /\ last.kind # "ok") =>
        /\ ~Authenticated
        /\ ~loading
        /\ bootPc = "done"
        /\ token = NoToken

\* The call of /auth/me for a stored credential rejected (network error).
C4_Witness ==
    /\ last.op = "bootMe"
    /\ last.kind = "neterr"
    /\ bootTok \in GoodTokens
    /\ token = NoToken

\* A loop refresh has failed: no 2xx answer, or one whose handling threw.
LoopRefreshFailed ==
    last.op = "loopRefresh" /\ ~(last.kind = "ok" /\ DecodeOk(last.tok))

\* C5: after a failed loop refresh the slot is empty and the identity absent.
C5_LoopFailureLogsOut ==
    LoopRefreshFailed => token = NoToken /\ ~Authenticated

\* A loop refresh got a 2xx answer whose access token could not be decoded.
C5_Witness ==
    /\ last.op = "loopRefresh"
    /\ last.kind = "ok"
    /\ ~DecodeOk(last.tok)
    /\ token = NoToken

Below(left) == left.k = "num" /\ left.v < LowWater
Lefts == [ i \in 1..Len(tickLog) |-> tickLog[i].left ]
Fired == [ i \in 1..Len(tickLog) |-> tickLog[i].fired ]

C7_OnlyLogoutOrLoopFailure ==
    [][ (user.present /\ ~user'.present) =>
            \/ last'.op = "logout"
            \/ last'.op = "loopRefresh" /\ ~(last'.kind = "ok" /\ DecodeOk(last'.tok)) ]_vars

\* C8 as stated: the published countdown is null or a number >= 0.
C8_CountdownNonNegative ==
    expiryMs = JNull \/ (expiryMs.k = "num" /\ expiryMs.v >= 0)

\* A credential as section 3 of the specification defines it: three segments,
\* the middle one a JSON object with sub and exp.
WellFormed(t) ==
    t.kind = "str" /\ t.segs = 3 /\ t.enc = "obj" /\ t.sub # "" /\ t.hasExp

\* The step before this state ended an operation that had received a credential.
OpFinished ==
    \/ last.op \in {"login", "loopRefresh", "bootMe"}
    \/ last.op = "bootRefresh" /\ bootPc = "done"

Received ==
    IF last.op = "bootMe" THEN bootTok
    ELSE IF last.kind = "ok" THEN setItem(last.tok)
    ELSE NoToken

\* C10 as stated: when an operation that received a credential which is not
\* well-formed has finished, that credential is not in the slot and the session
\* is not Authenticated on it.
C10_MalformedTreatedAsAbsent ==
    (OpFinished /\ Received # NoToken /\ ~WellFormed(Received)) =>
        /\ token # Received
        /\ last.op = "bootMe" => user # MeData
        /\ last.op # "bootMe" => user # DecodedUser(Received)

(***************************************************************************)
(* getTokenExpiry on its own: the credential and the clock are drawn from  *)
(* bounded sets, the function is called, time passes and it is called      *)
(* again.  token holds the argument, expiryMs the value returned.          *)
(***************************************************************************)
CodecExps == {-5, 0, 1, 75, 600}
CodecTokens ==
    {NoToken, Undef, OneSeg, NotJson, NoExpTok}
        \cup { Str(3, "raw", "", FALSE, 0), Str(3, "null", "", FALSE, 0) }
        \cup { Str(n, "obj", "alice", TRUE, x) : n \in {2, 3}, x \in CodecExps }

CodecInit ==
    /\ token \in CodecTokens
    /\ now \in {Interval, 2 * Interval}
    /\ expiryMs = JNull
    /\ user = NoUser
    /\ loading = TRUE
    /\ bootPc = "refresh"
    /\ bootTok = NoToken
    /\ bootFellBack = FALSE
    /\ loopInFlight = 0
    /\ loginPending = FALSE
    /\ tickLog = << >>
    /\ last = Step("init", NoResp)
    /\ mounted = TRUE
    /\ ChatAtRest

CodecCall ==
    /\ expiryMs' = getTokenExpiry(token, now)
    /\ last' = Step("getTokenExpiry", NoResp)
    /\ UNCHANGED << mounted, chatVars >>
    /\ UNCHANGED << token, user, loading, now, bootPc, bootTok, bootFellBack,
                    loopInFlight, loginPending, tickLog >>

CodecAdvance(d) ==
    /\ now + d <= MaxTicks * Interval
    /\ now' = now + d
    /\ last' = Step("advance", NoResp)
    /\ UNCHANGED << mounted, chatVars >>
    /\ UNCHANGED << token, user, loading, expiryMs, bootPc, bootTok, bootFellBack,
                    loopInFlight, loginPending, tickLog >>

CodecNext ==
    \/ CodecCall
    \/ \E d \in TickGaps : CodecAdvance(d)

SpecCodec == CodecInit /\ [][CodecNext]_vars

\* The credentials for which the specification's timeRemaining is null: missing,
\* fewer than two segments, a middle segment that is not base64 of JSON, no exp.
NoCountdown(t) ==
    \/ t.kind # "str"
    \/ t.segs < 2
    \/ t.enc \in {"raw", "text"}
    \/ t.enc = "null"
    \/ ~t.hasExp

Max0(x) == IF x > 0 THEN x ELSE 0

\* C9 as stated: getTokenExpiry returns null for a credential without a
\* countdown and max(0, exp*1000 - now) for every other one.
C9_TimeRemaining ==
    last.op = "getTokenExpiry" =>
        expiryMs = IF NoCountdown(token) THEN JNull
                   ELSE JNum(Max0(token.exp * MsPerSec - now))

(***************************************************************************)
(* Concurrency of the provider's requests                                  *)
(***************************************************************************)
\* The POSTs of /auth/refresh the provider has in flight: bootstrap's (line 27)
\* and those of the interval callbacks (line 85).
RefreshesInFlight == loopInFlight + (IF bootPc = "refresh" THEN 1 ELSE 0)

\* C13 as stated: at most one /auth/refresh request of the provider is in flight.
C13_OneRefreshInFlight ==
    RefreshesInFlight <= 1

\* C14 as stated: no interval callback runs, and none of its refreshes completes,
\* while bootstrap is still running (loading is true).
C14_LoopAfterBootstrap ==
    last.op \in {"tick", "loopRefresh"} => ~loading

\* C15 as stated, for the credential slot: once the provider is torn down, no
\* step writes localStorage["token"].  (React itself drops the state updates of
\* an unmounted component; the slot is outside React.)
C15_NoWriteAfterTeardown ==
    [][ ~mounted => token' = token ]_vars

\* C18 as stated, for the request that completes right after a call of logout
\* (it was started before the call): it stores no credential and sets no
\* identity.
C18_StaleCompletionAfterLogout ==
    [][ (last.op = "logout" /\ last'.op \in {"loopRefresh", "bootRefresh", "bootMe"}) =>
            token' = NoToken /\ ~user'.present ]_vars

\* C19 as stated: whenever the identity is present, a credential is stored.
C19_IdentityHasCredential ==
    (mounted /\ user.present) => token # NoToken

(***************************************************************************)
(* Progress                                                                *)
(***************************************************************************)
\* C16: with every fetch eventually answered, loading eventually becomes false
\* on every path of bootstrap, and no step sets it back to true.
C16_BootstrapTerminates ==
    /\ <>(~loading)
    /\ [][ ~loading => ~loading' ]_vars

\* Bootstrap has ended through the fallback without a stored credential (the
\* refresh answered 2xx with a body that could not be read).
C16_Witness ==
    /\ ~loading
    /\ bootPc = "done"
    /\ bootFellBack
    /\ bootTok = NoToken
    /\ last.op = "bootRefresh"
    /\ last.kind = "badbody"

\* Authenticated on a stored credential whose countdown is below the mark, with
\* the interval armed and the clock of the model not yet at its end.
Expiring(t) ==
    /\ mounted
    /\ user.present
    /\ token = t
    /\ Below(getTokenExpiry(t, now))
    /\ now + Interval <= MaxTicks * Interval

RefreshSucceeded ==
    last.op \in {"loopRefresh", "bootRefresh"} /\ last.kind = "ok" /\ DecodeOk(last.tok)

\* C17: from every state in which the session is Authenticated on a credential
\* whose countdown is below 60000, with the interval firing and every fetch
\* eventually answered, a refresh eventually succeeds, or the credential in the
\* slot is another one, or the session is Anonymous (or the provider is torn
\* down, which cancels the interval).
C17_ExpiringCredentialLeaves ==
    \A t \in GoodTokens :
        Expiring(t) ~> (RefreshSucceeded \/ token # t \/ ~user.present \/ ~mounted)

\* A tick has just started a refresh for the expiring credential of an
\* Authenticated session.
C17_Witness ==
    /\ Expiring(Jwt("alice", 75))
    /\ last.op = "tick"
    /\ loopInFlight = 1
    /\ ~loading

(***************************************************************************)
(* Properties of the chat view, checked under SpecChat.                    *)
(***************************************************************************)

\* C11: every startNewSession step makes current an id different from the
\* previous one and stores it as the current id, empties the visible message
\* list, and sets the selection to the one saved for the new id if there is one,
\* otherwise to the fetched default (none when no default has been fetched).
C11_StartNewSession ==
    [][ last'.op = "newSession" =>
            /\ sessionId' # sessionId
            /\ storedSession' = sessionId'
            /\ messages' = << >>
            /\ selectedModel' = IF savedModel[sessionId'] # NoModel
                                THEN savedModel[sessionId']
                                ELSE defaultModel ]_vars

\* startNewSession has run while a message was being sent (the list was not
\* empty), with a selection saved for the new id and another model as default.
C11_Witness ==
    /\ last.op = "newSession"
    /\ sessionId = 2
    /\ storedSession = 2
    /\ sending
    /\ messages = << >>
    /\ savedModel[2] = "m1"
    /\ defaultModel = "m2"
    /\ selectedModel = "m1"

AssistantTexts == {AssistantText(r) : r \in ChatResponses}

\* C12: a sendMessage call with non-blank input and a stored credential appends
\* the user message and sets the sending flag; a request is outstanding exactly
\* while the flag is set; the continuation, whatever /api/chat answered, appends
\* exactly one assistant message (the reply or an "Error: ..." text) and resets
\* the flag; a call with blank input or no credential changes nothing.
C12_SendAlwaysAnswers ==
    /\ [](sending <=> sendSid # 0)
    /\ [][ /\ last'.op = "send" =>
                /\ Trim(input) # "" /\ token # NoToken
                /\ messages' = Append(messages, Msg("user", Trim(input), sessionId))
                /\ sending'
           /\ last'.op = "sendDone" =>
                /\ Len(messages') = Len(messages) + 1
                /\ SubSeq(messages', 1, Len(messages)) = messages
                /\ messages'[Len(messages')].role = "assistant"
                /\ messages'[Len(messages')].content \in AssistantTexts
                /\ ~sending'
           /\ last'.op = "sendReturn" =>
                /\ Trim(input) = "" \/ token = NoToken
                /\ UNCHANGED chatVars ]_vars

\* A typed message was trimmed and sent, /api/chat answered with a status and
\* an undecodable body, and the view shows the error as an assistant message.
C12_Witness ==
    /\ last.op = "sendDone"
    /\ ~sending
    /\ messages = << Msg("user", "hi", 1),
                     Msg("assistant", "Error: Unexpected token", 1) >>

\* C20: every visible message and the displayed selection were produced for
\* the current session id.
C20_ViewBelongsToSession ==
    /\ \A i \in 1..Len(messages) : messages[i].sid = sessionId
    /\ selectedModel # NoModel => selOwner = sessionId

====
